---- MODULE Spec2Model ----
(***************************************************************************)
(* The investigation board (CorkBoard): graph reduction and radial layout  *)
(* (buildLayout), as mounted by the React component through useMemo.       *)
(*                                                                         *)
(* Ids are strings.  A node is a record [id |-> ...]; an edge is a record  *)
(* [from |-> ..., to |-> ...].  A missing (undefined) or empty id, `from`  *)
(* or `to` is the falsy value Missing.                                     *)
(*                                                                         *)
(* Numbers: angles are fixed-point radians scaled by TRIG_SCALE, and       *)
(* coordinates are fixed-point pixels scaled by POS_SCALE (tenths of a     *)
(* pixel), so that Math.cos / Math.sin are computed, not assumed.          *)
(*                                                                         *)
(* The viewport (usePanZoom) and the selection are the component's state   *)
(* next to the layout: transform {x, y, scale}, the refs isPanning and     *)
(* lastPos, and selectedNodeId.  Offsets and pointer positions are in      *)
(* units of 1/POS_SCALE pixel, scale and zoom factors in units of          *)
(* 1/ZOOM_SCALE.  lastEvent records the event a handler has just served    *)
(* and events counts the events served.  layoutRuns counts the calls of    *)
(* buildLayout.  photo is one PinnedPhoto with its entrance timer.         *)
(* gesture records the pan gesture in progress: the transform and the      *)
(* pointer at its pointer-down, the pointer of its last move.  app is the  *)
(* state of the App component above the board, with its requests in flight.*)
(***************************************************************************)
EXTENDS Integers, Sequences, FiniteSets, TLC

VARIABLES spreadData, layout, mounted, layoutRuns,
          transform, isPanning, lastPos, selectedNodeId,
          lastEvent, events,
          photo, gesture, app

graphVars == <<spreadData, layout, mounted, layoutRuns>>
viewVars == <<transform, isPanning, lastPos>>
vars == <<graphVars, viewVars, selectedNodeId, lastEvent, events, photo, gesture, app>>

\* ------------------------------------------------------------------ bounds
\* Longest edge list of an input graph.
MaxEdges == 3

\* Most fetch calls of one run of App, and most file selections and resets.
MaxRequests == 4
MaxSelections == 3

\* Most events served by the handlers of one run.
MaxEvents == 3

\* Most iterations of a lineage loop that are followed before giving up.
WalkFuel == 8

\* Most entrance timers set for one node in one run.
MaxTimers == 3

\* ------------------------------------------------------- program constants
BOARD_W == 2000
BOARD_H == 1600
RING_SPACING == 260
NODE_W == 160
NODE_H == 200
\* positions["__uploaded__"]: 300 px left of and 280 px above the centre
UPLOADED_DX == 300
UPLOADED_DY == 280

\* fixed-point scales of the model's arithmetic
TRIG_SCALE == 10000
POS_SCALE == 10

CENTER_X == BOARD_W \div 2
CENTER_Y == BOARD_H \div 2

\* Math.PI and the ring skew 0.4 rad, in units of 1/TRIG_SCALE rad
PI == 31416
RING_SKEW == 4000

\* fixed-point scale of the viewport scale and of the zoom factors
ZOOM_SCALE == 10000

\* useState({ x: 0, y: 0, scale: 0.55 })
INITIAL_SCALE == 5500
\* Math.min(2, Math.max(0.2, ...))
MIN_SCALE == 2000
MAX_SCALE == 20000
\* Math.exp(-e.deltaY * 0.0014)
WHEEL_SENSITIVITY == 14
\* Math.max(0.955, rawFactor) and Math.min(1.03, ...)
MIN_ZOOM_FACTOR == 9550
MAX_ZOOM_FACTOR == 10300
\* the wheel step factors 0.92 and 1.08 of the earlier onWheel
STEP_OUT_FACTOR == 9200
STEP_IN_FACTOR == 10800

\* Math.min(len * 0.1, 40): the tenth of the length and the cap in pixels
YARN_SLACK_DIVISOR == 10
YARN_MAX_OFFSET == 40
\* BASE_DELAY and NODE_STAGGER of the entrance animation, in ms
BASE_DELAY == 400
NODE_STAGGER == 300

\* --------------------------------------------------------------------- ids
Missing == ""
UPLOADED_ID == "__uploaded__"
SRC == "src"
GHOST == "ghost"
\* the ids of the nodes an input graph may list besides the source
NodeIds == {"n1", "n2"}

Truthy(v) == v # Missing

\* ------------------------------------------------------------ Math.cos/sin
\* cos on [0, PI/2] by the Horner form of its Taylor polynomial of degree 8
CosQ(x) ==
    LET x2 == (x * x) \div TRIG_SCALE
        t4 == TRIG_SCALE - (x2 \div 56)
        t3 == TRIG_SCALE - (((x2 * t4) \div TRIG_SCALE) \div 30)
        t2 == TRIG_SCALE - (((x2 * t3) \div TRIG_SCALE) \div 12)
    IN  TRIG_SCALE - (((x2 * t2) \div TRIG_SCALE) \div 2)

Cos(a) ==
    LET r == a % (2 * PI)
        h == IF r > PI THEN 2 * PI - r ELSE r
    IN  IF 2 * h > PI THEN 0 - CosQ(PI - h) ELSE CosQ(h)

Sin(a) == Cos(a - (PI \div 2))

\* ------------------------------------------------------------ input graphs
\* spreadData.source: a node, a node whose id is falsy, or no source at all
SourceNode == [defined |-> TRUE, id |-> SRC]
FalsyIdSource == [defined |-> TRUE, id |-> Missing]
NoSource == [defined |-> FALSE, id |-> Missing]

\* the value of App's spreadData state before any spread response
NullSpread == [null |-> TRUE, source |-> NoSource, nodes |-> <<>>, edges |-> <<>>]

Range(s) == {s[i] : i \in 1..Len(s)}

SeqsUpTo(S, n) == UNION {[1..k -> S] : k \in 0..n}

nodeIdsOf(nodes) == {nodes[i].id : i \in 1..Len(nodes)}

\* node lists: distinct ids (ids are unique), the source may be listed too
NodeLists ==
    {[i \in 1..Len(ids) |-> [id |-> ids[i]]] :
        ids \in {s \in SeqsUpTo(NodeIds \cup {SRC}, Cardinality(NodeIds) + 1) :
                    \A i, j \in 1..Len(s) : i # j => s[i] # s[j]}}

\* edges: every pair of source and node ids (self-loops, cycles and edges back
\* into the source included), and one edge of each dangling or malformed kind
DanglingEdges ==
    {[from |-> "n1", to |-> GHOST], [from |-> GHOST, to |-> "n2"],
     [from |-> Missing, to |-> "n1"], [from |-> SRC, to |-> Missing],
     [from |-> Missing, to |-> Missing]}
Edges == [from : NodeIds \cup {SRC}, to : NodeIds \cup {SRC}] \cup DanglingEdges
EdgeLists == SeqsUpTo(Edges, MaxEdges)

Graphs ==
    [null : {FALSE}, source : {SourceNode}, nodes : NodeLists, edges : EdgeLists]

\* graphs of three listed nodes n1, n2, n3 (chains of depth 3, rings of three)
ChainNodes == <<[id |-> "n1"], [id |-> "n2"], [id |-> "n3"]>>
ChainEnds == nodeIdsOf(ChainNodes) \cup {SRC}
ChainGraphs ==
    [null : {FALSE}, source : {SourceNode}, nodes : {ChainNodes},
     edges : SeqsUpTo([from : ChainEnds, to : ChainEnds], MaxEdges)]

\* graphs the data model does not allow (section 3) but buildLayout may be given
MalformedGraphs ==
    [null : {FALSE}, source : {FalsyIdSource, NoSource},
     nodes : NodeLists, edges : SeqsUpTo(Edges, 1)]

\* ------------------------------------------------------------- buildLayout
\* nodeById = Object.fromEntries(nodes.map(n => [n.id, n])): its keys
nodeById(nodes) == nodeIdsOf(nodes)

\* the guard of the adjacency loop: if (!e?.from || !e?.to) continue
EdgeUsable(e) == Truthy(e.from) /\ Truthy(e.to)

\* children[from]: the `to` ids of the usable edges out of `from`, in edge order
ChildList(edges, from) ==
    LET es == SelectSeq(edges, LAMBDA e : EdgeUsable(e) /\ e.from = from)
    IN  [i \in 1..Len(es) |-> es[i].to]

\* children with every edge also followed backwards, from `to` to `from`
childrenUndirected(edges) ==
    LET both == edges \o [i \in 1..Len(edges) |->
                            [from |-> edges[i].to, to |-> edges[i].from]]
    IN  [from \in {both[i].from : i \in {j \in 1..Len(both) : EdgeUsable(both[j])}}
            |-> ChildList(both, from)]

\* children: the adjacency list, keyed by the `from` ids that have an entry
children(edges) ==
    [from \in {edges[i].from : i \in {j \in 1..Len(edges) : EdgeUsable(edges[j])}}
        |-> ChildList(edges, from)]

\* children[cur] || []
ChildrenOf(adj, cur) == IF cur \in DOMAIN adj THEN adj[cur] ELSE <<>>

\* !depth[child]: a depth of 0 taken for no depth
UndiscoveredFalsy(depth, child) == child \notin DOMAIN depth \/ depth[child] = 0

\* depth[child] === undefined
Undiscovered(depth, child) == child \notin DOMAIN depth

\* depth[cur], the increment forgotten
NextDepthSame(d) == d

\* depth[cur] + 1
NextDepth(d) == d + 1

\* the state of the traversal before the loop: depth, reachableIds, queue
BfsStart(source) ==
    [depth |-> (source.id :> 0), reachableIds |-> {source.id}, queue |-> <<source.id>>]

\* for (const child of children[cur] || []) { ... }
RECURSIVE VisitChildren(_, _, _, _)
VisitChildren(kids, cur, known, st) ==
    IF kids = <<>> THEN st
    ELSE LET child == Head(kids)
         IN  IF child \notin known THEN VisitChildren(Tail(kids), cur, known, st)
             ELSE IF Undiscovered(st.depth, child)
                  THEN VisitChildren(Tail(kids), cur, known,
                         [depth |-> (child :> NextDepth(st.depth[cur])) @@ st.depth,
                          reachableIds |-> st.reachableIds \cup {child},
                          queue |-> Append(st.queue, child)])
                  ELSE VisitChildren(Tail(kids), cur, known, st)

\* while (queue.length > 0) { const cur = queue.shift(); ... }
RECURSIVE BfsLoop(_, _, _)
BfsLoop(adj, known, st) ==
    IF st.queue = <<>> THEN st
    ELSE LET cur == Head(st.queue)
         IN  BfsLoop(adj, known,
                     VisitChildren(ChildrenOf(adj, cur), cur, known,
                                   [st EXCEPT !.queue = Tail(st.queue)]))

\* nodes.filter(n => reachableIds.has(n.id))
NodeVisible(reachableIds, n) == n.id \in reachableIds
visibleNodesOf(nodes, reachableIds) ==
    SelectSeq(nodes, LAMBDA n : NodeVisible(reachableIds, n))

\* reachableIds.has(e.to) alone, the test of e.from forgotten
EdgeVisibleToOnly(reachableIds, e) == e.to \in reachableIds

\* edges.filter(e => reachableIds.has(e.from) && reachableIds.has(e.to))
EdgeVisible(reachableIds, e) == e.from \in reachableIds /\ e.to \in reachableIds
visibleEdgesOf(edges, reachableIds) ==
    SelectSeq(edges, LAMBDA e : EdgeVisible(reachableIds, e))

\* rings[d]: the ids of the visible nodes of depth d, in visibleNodes order
ringIds(visibleNodes, depth, d) ==
    LET ns == SelectSeq(visibleNodes, LAMBDA n : depth[n.id] = d)
    IN  [i \in 1..Len(ns) |-> ns[i].id]

\* ringKeys = Object.keys(rings)
ringKeys(visibleNodes, depth) == {depth[visibleNodes[i].id] : i \in 1..Len(visibleNodes)}

\* ringDepth * RING_SPACING, the first ring not moved out by one spacing
RingRadiusNoShift(ringDepth) == ringDepth * RING_SPACING

\* radius = (ringDepth + 1) * RING_SPACING
RingRadius(ringDepth) == (ringDepth + 1) * RING_SPACING

\* angleStep = (2 * Math.PI) / ids.length
AngleStep(n) == (2 * PI) \div n

\* the angle without its slot term i * angleStep: every node of a ring on slot 0
AngleNoSlot(ringDepth, i, n) == ringDepth * RING_SKEW - (PI \div 2)

\* angle = angleOffset + i * angleStep - Math.PI / 2, angleOffset = ringDepth * 0.4
Angle(ringDepth, i, n) == ringDepth * RING_SKEW + i * AngleStep(n) - (PI \div 2)

\* a position {x, y, cx, cy} from its centre
At(cx, cy) ==
    [x |-> cx - (NODE_W * POS_SCALE) \div 2, y |-> cy - (NODE_H * POS_SCALE) \div 2,
     cx |-> cx, cy |-> cy]

\* positions[ids[i]] of the ring loop: slot i of the n slots of ring ringDepth
RingPosition(ringDepth, i, n) ==
    LET radius == RingRadius(ringDepth)
        angle == Angle(ringDepth, i, n)
    IN  At(CENTER_X * POS_SCALE + (radius * Cos(angle) * POS_SCALE) \div TRIG_SCALE,
           CENTER_Y * POS_SCALE + (radius * Sin(angle) * POS_SCALE) \div TRIG_SCALE)

\* positions[source.id]
SourcePosition == At(CENTER_X * POS_SCALE, CENTER_Y * POS_SCALE)

\* the two offsets of the uploaded image exchanged
UploadedPositionSwapped ==
    At((CENTER_X - UPLOADED_DY) * POS_SCALE, (CENTER_Y - UPLOADED_DX) * POS_SCALE)

\* positions["__uploaded__"]
UploadedPosition ==
    At((CENTER_X - UPLOADED_DX) * POS_SCALE, (CENTER_Y - UPLOADED_DY) * POS_SCALE)

\* the assignments of one ring; a later slot overwrites an earlier one
ringPositions(ids, ringDepth) ==
    [id \in Range(ids) |->
        LET i == CHOOSE j \in 1..Len(ids) :
                    ids[j] = id /\ \A k \in (j + 1)..Len(ids) : ids[k] # id
        IN  RingPosition(ringDepth, i - 1, Len(ids))]

\* for (const ringDepth of ringKeys) { ... }: all the ring assignments
RECURSIVE allRingPositions(_, _, _)
allRingPositions(visibleNodes, depth, keys) ==
    IF keys = {} THEN <<>>
    ELSE LET d == CHOOSE k \in keys : \A o \in keys : k >= o
         IN  ringPositions(ringIds(visibleNodes, depth, d), d)
               @@ allRingPositions(visibleNodes, depth, keys \ {d})

\* positions without the entry of the uploaded image
positionsOfNoUpload(source, visibleNodes, depth) ==
    allRingPositions(visibleNodes, depth, ringKeys(visibleNodes, depth))
      @@ (source.id :> SourcePosition)

\* positions: source, then "__uploaded__", then the rings; later writes win
positionsOf(source, visibleNodes, depth) ==
    allRingPositions(visibleNodes, depth, ringKeys(visibleNodes, depth))
      @@ (UPLOADED_ID :> UploadedPosition)
      @@ (source.id :> SourcePosition)

\* the result of if (!spreadData) return {...}
EmptyLayout ==
    [threw |-> FALSE, depth |-> <<>>, reachableIds |-> {}, visibleNodes |-> <<>>,
     visibleEdges |-> <<>>, positions |-> <<>>, allNodes |-> <<>>]

\* source.id of an undefined source: a TypeError leaves buildLayout
ThrownLayout == [EmptyLayout EXCEPT !.threw = TRUE]

buildLayout(data) ==
    IF data.null THEN EmptyLayout
    ELSE IF ~data.source.defined THEN ThrownLayout
    ELSE LET bfs == BfsLoop(children(data.edges), nodeById(data.nodes),
                            BfsStart(data.source))
             visibleNodes == visibleNodesOf(data.nodes, bfs.reachableIds)
         IN  [threw |-> FALSE,
              depth |-> bfs.depth,
              reachableIds |-> bfs.reachableIds,
              visibleNodes |-> visibleNodes,
              visibleEdges |-> visibleEdgesOf(data.edges, bfs.reachableIds),
              positions |-> positionsOf(data.source, visibleNodes, bfs.depth),
              allNodes |-> <<[id |-> data.source.id]>> \o visibleNodes]

\* -------------------------------------------------------------- usePanZoom
Min(a, b) == IF a <= b THEN a ELSE b
Max(a, b) == IF a >= b THEN a ELSE b

\* a / b rounded to the nearest integer, b > 0
DivRound(a, b) == (2 * a + b) \div (2 * b)

\* Math.exp(u) for |u| <= 1/4, u and the result in units of 1/ZOOM_SCALE: the
\* Horner form of the Taylor polynomial of degree 4
ExpSmall(u) ==
    LET t4 == ZOOM_SCALE + u \div 4
        t3 == ZOOM_SCALE + ((u * t4) \div ZOOM_SCALE) \div 3
        t2 == ZOOM_SCALE + ((u * t3) \div ZOOM_SCALE) \div 2
    IN  ZOOM_SCALE + (u * t2) \div ZOOM_SCALE

\* Math.exp(u): exp(u) = exp(u / 2)^2 outside [-1/4, 1/4]
RECURSIVE Exp(_)
Exp(u) ==
    IF u * 4 < -ZOOM_SCALE \/ u * 4 > ZOOM_SCALE
    THEN LET h == Exp(u \div 2) IN (h * h) \div ZOOM_SCALE
    ELSE ExpSmall(u)

\* delta = e.deltaY > 0 ? 0.92 : 1.08, the fixed step of the earlier onWheel
zoomFactorStep(deltaY) == IF deltaY > 0 THEN STEP_OUT_FACTOR ELSE STEP_IN_FACTOR

\* rawFactor = Math.exp(-e.deltaY * 0.0014); zoomFactor = e.deltaY > 0
\*   ? Math.max(0.955, rawFactor) : Math.min(1.03, Math.max(1.0, rawFactor))
zoomFactor(deltaY) ==
    LET rawFactor == Exp(-deltaY * WHEEL_SENSITIVITY)
    IN  IF deltaY > 0 THEN Max(MIN_ZOOM_FACTOR, rawFactor)
        ELSE Min(MAX_ZOOM_FACTOR, Max(ZOOM_SCALE, rawFactor))

\* t.scale * zoomFactor, the clamp to [0.2, 2] left out
nextScaleUnclamped(scale, factor) == DivRound(scale * factor, ZOOM_SCALE)

\* nextScale = Math.min(2, Math.max(0.2, t.scale * zoomFactor))
nextScale(scale, factor) ==
    Min(MAX_SCALE, Max(MIN_SCALE, DivRound(scale * factor, ZOOM_SCALE)))

\* pointer - world * nextScale with world = (pointer - offset) / scale: the
\* quotient is kept exact and the product rounded once
anchoredOffset(pointer, offset, scale, next) ==
    pointer - DivRound((pointer - offset) * next, scale)

\* the updater of the earlier onWheel: the scale changes, the offset stays
wheelTransformUnanchored(t, deltaY, pointerX, pointerY) ==
    [t EXCEPT !.scale = nextScale(t.scale, zoomFactor(deltaY))]

\* the updater passed to setTransform by onWheel
wheelTransform(t, deltaY, pointerX, pointerY) ==
    LET next == nextScale(t.scale, zoomFactor(deltaY))
    IN  [scale |-> next,
         x |-> anchoredOffset(pointerX, t.x, t.scale, next),
         y |-> anchoredOffset(pointerY, t.y, t.scale, next)]

\* the pointer delta taken in world units: divided by the scale
moveTransformScaled(t, last, pointer) ==
    [t EXCEPT !.x = t.x + ((pointer.x - last.x) * ZOOM_SCALE) \div t.scale,
              !.y = t.y + ((pointer.y - last.y) * ZOOM_SCALE) \div t.scale]

\* the offset set to the pointer delta, t.x and t.y forgotten
moveTransformAbsolute(t, last, pointer) ==
    [t EXCEPT !.x = pointer.x - last.x, !.y = pointer.y - last.y]

\* t => ({ ...t, x: t.x + dx, y: t.y + dy }), dx = e.clientX - lastPos.current.x
moveTransform(t, last, pointer) ==
    [t EXCEPT !.x = t.x + (pointer.x - last.x), !.y = t.y + (pointer.y - last.y)]

\* the elements a pointer-down may land on: the viewport background or an
\* element inside .pinned-photo, .back-button or .node-popup
InteractiveChildren == {"pinned-photo", "back-button", "node-popup"}
Targets == {"viewport"} \cup InteractiveChildren

\* every pointer-down starts a pan, the closest() test left out
startsPanAnywhere(target) == TRUE

\* !e.target.closest('.pinned-photo, .back-button, .node-popup')
startsPan(target) == target \notin InteractiveChildren

\* (clientX, clientY) of the pointer events, in units of 1/POS_SCALE pixel
Pointers == {[x |-> 100 * POS_SCALE, y |-> 80 * POS_SCALE],
             [x |-> 400 * POS_SCALE, y |-> 300 * POS_SCALE]}

\* e.deltaY of the wheel events: a notch and a fine step each way, and none
WheelDeltas == {-1000, -10, 0, 10, 1000}

\* useState({ x: 0, y: 0, scale: 0.55 })
InitialTransform == [x |-> 0, y |-> 0, scale |-> INITIAL_SCALE]

\* transforms earlier zooming and panning have left: the scale at, next to and
\* between its limits, the board at rest or dragged
ReachedTransforms ==
    {InitialTransform}
      \cup [x : {-120 * POS_SCALE}, y : {60 * POS_SCALE},
           scale : {MIN_SCALE, 2050, 10000, 19800, MAX_SCALE}]

NoPointer == [x |-> 0, y |-> 0]
NoEvent ==
    [kind |-> "none", target |-> "", pointer |-> NoPointer, deltaY |-> 0, id |-> Missing]

\* a PinnedPhoto not on the board, no timer set.  timer is the handle kept by
\* the current effect, pending the timers the browser still holds (each with
\* the component instance whose setVisible it calls); timers and instance count
\* the timers set and the mounts; fired is the handle of the last timer that
\* ran and cleared the handles cancelled while pending.
NoPhoto ==
    [mounted |-> FALSE, visible |-> FALSE, animDelay |-> 0, timer |-> 0,
     pending |-> {}, fired |-> 0, cleared |-> {}, instance |-> 0, timers |-> 0]

\* no gesture recorded, and none to be (recording is FALSE)
NoGesture ==
    [recording |-> FALSE, started |-> FALSE, ended |-> FALSE, plain |-> FALSE,
     moves |-> 0, from |-> InitialTransform, p0 |-> NoPointer, pk |-> NoPointer]

\* the record of the gesture after event e is served with transform t: a
\* pointer-down on the background opens a gesture at e.pointer, a move
\* extends the open gesture, a pointer-up ends it; any other event, and any
\* event after the pointer-up, leaves a gesture that is no longer the plain
\* sequence down, moves, up
recorded(g, e, t) ==
    IF ~g.recording THEN g
    ELSE IF e.kind = "mousedown" /\ startsPan(e.target)
    THEN [recording |-> TRUE, started |-> TRUE, ended |-> FALSE, plain |-> TRUE,
          moves |-> 0, from |-> t, p0 |-> e.pointer, pk |-> e.pointer]
    ELSE IF e.kind = "mousemove" /\ g.started /\ ~g.ended
    THEN [g EXCEPT !.pk = e.pointer, !.moves = g.moves + 1]
    ELSE IF e.kind = "mouseup" /\ g.started /\ ~g.ended
    THEN [g EXCEPT !.ended = TRUE]
    ELSE [g EXCEPT !.plain = FALSE]

\* the App component not modelled in a run of the board alone
NoApp == [phase |-> "investigate"]

\* ------------------------------------------------------------ the component
Init ==
    /\ spreadData \in Graphs \cup ChainGraphs \cup MalformedGraphs \cup {NullSpread}
    /\ layout = EmptyLayout
    /\ mounted = FALSE
    /\ layoutRuns = 0
    /\ transform = InitialTransform
    /\ isPanning = FALSE
    /\ lastPos = NoPointer
    /\ selectedNodeId = Missing
    /\ lastEvent = NoEvent
    /\ events = 0
    /\ photo = NoPhoto
    /\ gesture = NoGesture
    /\ app = NoApp

\* first render of CorkBoard: useMemo(() => buildLayout(spreadData), [spreadData])
Mount ==
    /\ ~mounted
    /\ mounted' = TRUE
    /\ layout' = buildLayout(spreadData)
    /\ layoutRuns' = layoutRuns + 1
    /\ UNCHANGED <<spreadData, viewVars, selectedNodeId, lastEvent, events, photo, gesture, app>>

Next == Mount

Spec == Init /\ [][Next]_vars

\* ------------------------------------------------- the board under interaction
\* the graphs shown while the board is used
ViewGraphs ==
    {[null |-> FALSE, source |-> SourceNode,
      nodes |-> <<[id |-> "n1"], [id |-> "n2"]>>,
      edges |-> <<[from |-> SRC, to |-> "n1"], [from |-> "n1", to |-> "n2"]>>]}

\* the board is rendered: if (!spreadData) return null, and the event is counted
Rendered == mounted /\ ~spreadData.null /\ ~layout.threw /\ events < MaxEvents

\* the event is the board's: the photos' timers are not touched
Served(e) ==
    /\ lastEvent' = e
    /\ events' = events + 1
    /\ gesture' = recorded(gesture, e, transform)
    /\ UNCHANGED <<photo, app>>

\* useMemo without its dependency list: the factory runs on every render
depsChangedAlways(prev, deps) == TRUE

\* useMemo(..., [spreadData]): the dependency differs from the last render's
depsChanged(prev, deps) == prev # deps

\* a render of CorkBoard after a state or prop change
Render ==
    IF depsChanged(spreadData, spreadData')
    THEN layout' = buildLayout(spreadData') /\ layoutRuns' = layoutRuns + 1
    ELSE UNCHANGED <<layout, layoutRuns>>

\* the PinnedPhotos on the board: "__uploaded__" and allNodes, where positioned
Selectable ==
    {id \in {UPLOADED_ID} \cup nodeIdsOf(layout.allNodes) : id \in DOMAIN layout.positions}

\* selectedNode && popupLayout: the node popup is on the board
PopupShown == Truthy(selectedNodeId) /\ selectedNodeId \in Selectable

onMouseDown ==
    /\ Rendered
    /\ \E target \in Targets, pointer \in Pointers :
          /\ (target = "node-popup") => PopupShown
          /\ IF startsPan(target)
             THEN isPanning' = TRUE /\ lastPos' = pointer
             ELSE UNCHANGED <<isPanning, lastPos>>
          /\ Served([NoEvent EXCEPT !.kind = "mousedown", !.target = target,
                                    !.pointer = pointer])
    /\ UNCHANGED <<graphVars, transform, selectedNodeId>>

onMouseMove ==
    /\ Rendered
    /\ UNCHANGED <<spreadData, mounted>>
    /\ \E pointer \in Pointers :
          /\ IF isPanning
             THEN /\ lastPos' = pointer
                  /\ transform' = moveTransform(transform, lastPos, pointer)
                  /\ Render
             ELSE UNCHANGED <<lastPos, transform, layout, layoutRuns>>
          /\ Served([NoEvent EXCEPT !.kind = "mousemove", !.pointer = pointer])
    /\ UNCHANGED <<isPanning, selectedNodeId>>

onMouseUp ==
    /\ Rendered
    /\ isPanning' = FALSE
    /\ Served([NoEvent EXCEPT !.kind = "mouseup"])
    /\ UNCHANGED <<graphVars, transform, lastPos, selectedNodeId>>

\* the viewport without onMouseLeave={onMouseUp}: leaving it ends no pan
onMouseLeaveUnwired ==
    /\ Rendered
    /\ Served([NoEvent EXCEPT !.kind = "mouseleave"])
    /\ UNCHANGED <<graphVars, viewVars, selectedNodeId>>

\* onMouseLeave={onMouseUp}
onMouseLeave ==
    /\ Rendered
    /\ isPanning' = FALSE
    /\ Served([NoEvent EXCEPT !.kind = "mouseleave"])
    /\ UNCHANGED <<graphVars, transform, lastPos, selectedNodeId>>

\* an onWheel that also ends the pan in progress
onWheelEndsPan ==
    /\ Rendered
    /\ \E deltaY \in WheelDeltas, pointer \in Pointers :
          /\ transform' = wheelTransform(transform, deltaY, pointer.x, pointer.y)
          /\ Served([NoEvent EXCEPT !.kind = "wheel", !.pointer = pointer,
                                    !.deltaY = deltaY])
    /\ isPanning' = FALSE
    /\ UNCHANGED <<spreadData, mounted, lastPos, selectedNodeId>>
    /\ Render

\* pointerX = e.clientX - rect.left with the viewport at the window's corner
onWheel ==
    /\ Rendered
    /\ \E deltaY \in WheelDeltas, pointer \in Pointers :
          /\ transform' = wheelTransform(transform, deltaY, pointer.x, pointer.y)
          /\ Served([NoEvent EXCEPT !.kind = "wheel", !.pointer = pointer,
                                    !.deltaY = deltaY])
    /\ UNCHANGED <<spreadData, mounted, isPanning, lastPos, selectedNodeId>>
    /\ Render

\* a select that also moves the selected node's box onto the board centre
handleSelectNodeMoving ==
    /\ Rendered
    /\ \E id \in Selectable :
          /\ selectedNodeId' = id
          /\ layout' = [layout EXCEPT !.positions[id] = SourcePosition]
          /\ Served([NoEvent EXCEPT !.kind = "select", !.id = id])
    /\ UNCHANGED <<spreadData, mounted, layoutRuns, viewVars>>

\* onSelect={handleSelectNode}: setSelectedNodeId(node.id)
handleSelectNode ==
    /\ Rendered
    /\ \E id \in Selectable :
          /\ selectedNodeId' = id
          /\ Served([NoEvent EXCEPT !.kind = "select", !.id = id])
    /\ UNCHANGED <<spreadData, mounted, viewVars>>
    /\ Render

\* the popup's close button: onClick={() => setSelectedNodeId(null)}
closePopup ==
    /\ Rendered
    /\ PopupShown
    /\ selectedNodeId' = Missing
    /\ Served([NoEvent EXCEPT !.kind = "clear"])
    /\ UNCHANGED <<spreadData, mounted, viewVars>>
    /\ Render

\* the board on screen with its graph laid out, nothing selected, no pan begun
InitView ==
    /\ spreadData \in ViewGraphs
    /\ layout = buildLayout(spreadData)
    /\ mounted = TRUE
    /\ layoutRuns = 1
    /\ transform \in ReachedTransforms
    /\ isPanning = FALSE
    /\ lastPos = NoPointer
    /\ selectedNodeId = Missing
    /\ lastEvent = NoEvent
    /\ events = 0
    /\ photo = NoPhoto
    /\ gesture = NoGesture
    /\ app = NoApp

NextView ==
    \/ onMouseDown
    \/ onMouseMove
    \/ onMouseUp
    \/ onMouseLeave
    \/ onWheel
    \/ handleSelectNode
    \/ closePopup

SpecView == InitView /\ [][NextView]_vars

\* ------------------------------------------------------- lineage highlighting
\* allEdges = [{ from: "__uploaded__", to: source.id }, ...visibleEdges]
allEdgesNoUpload(source, visibleEdges) == visibleEdges
allEdgesOf(source, visibleEdges) ==
    <<[from |-> UPLOADED_ID, to |-> source.id]>> \o visibleEdges

\* an index that keeps the first edge into each id
edgeByToFirst(edges) ==
    [to \in {edges[i].to : i \in {j \in 1..Len(edges) : Truthy(edges[j].to)}} |->
        edges[CHOOSE i \in 1..Len(edges) :
                 edges[i].to = to /\ \A k \in 1..(i - 1) : edges[k].to # to]]

\* for (const edge of allEdges) if (edge?.to) byTo.set(edge.to, edge): the
\* last edge into each id
edgeByToOf(edges) ==
    [to \in {edges[i].to : i \in {j \in 1..Len(edges) : Truthy(edges[j].to)}} |->
        edges[CHOOSE i \in 1..Len(edges) :
                 edges[i].to = to /\ \A k \in (i + 1)..Len(edges) : edges[k].to # to]]

\* edgeByTo.get(cursor)?.from: Missing when there is no edge or no from
parentOf(byTo, cursor) == IF cursor \in DOMAIN byTo THEN byTo[cursor].from ELSE Missing

\* `${edge.from}-${edge.to}`
edgeKey(edge) == edge.from \o "-" \o edge.to

\* the loop test without its cycle guard
loopContinuesUnguarded(cursor, seen) == Truthy(cursor)

\* while (cursor && !seen.has(cursor))
loopContinues(cursor, seen) == Truthy(cursor) /\ cursor \notin seen

\* a walk that collects the parents of the ids it visits, not the ids
RECURSIVE lineageNodeWalkParentsOnly(_, _, _, _, _)
lineageNodeWalkParentsOnly(byTo, cursor, seen, ids, visits) ==
    IF ~loopContinues(cursor, seen) THEN [ids |-> ids, visits |-> visits, finished |-> TRUE]
    ELSE IF Len(visits) >= WalkFuel THEN [ids |-> ids, visits |-> visits, finished |-> FALSE]
    ELSE IF ~Truthy(parentOf(byTo, cursor))
         THEN [ids |-> ids, visits |-> Append(visits, cursor), finished |-> TRUE]
         ELSE lineageNodeWalkParentsOnly(byTo, parentOf(byTo, cursor), seen \cup {cursor},
                                         ids \cup {parentOf(byTo, cursor)},
                                         Append(visits, cursor))

\* the loop of lineageNodeIds: seen.add(cursor); ids.add(cursor);
\* if (!parentEdge?.from) break; cursor = parentEdge.from
RECURSIVE lineageNodeWalk(_, _, _, _, _)
lineageNodeWalk(byTo, cursor, seen, ids, visits) ==
    IF ~loopContinues(cursor, seen) THEN [ids |-> ids, visits |-> visits, finished |-> TRUE]
    ELSE IF Len(visits) >= WalkFuel THEN [ids |-> ids, visits |-> visits, finished |-> FALSE]
    ELSE IF ~Truthy(parentOf(byTo, cursor))
         THEN [ids |-> ids \cup {cursor}, visits |-> Append(visits, cursor),
               finished |-> TRUE]
         ELSE lineageNodeWalk(byTo, parentOf(byTo, cursor), seen \cup {cursor},
                              ids \cup {cursor}, Append(visits, cursor))

\* the loop of lineageEdgeKeys: seen.add(cursor);
\* if (!edge?.from || !edge?.to) break; keys.add(key); cursor = edge.from
RECURSIVE lineageEdgeWalk(_, _, _, _, _)
lineageEdgeWalk(byTo, cursor, seen, keys, visits) ==
    IF ~loopContinues(cursor, seen) THEN [keys |-> keys, visits |-> visits, finished |-> TRUE]
    ELSE IF Len(visits) >= WalkFuel THEN [keys |-> keys, visits |-> visits, finished |-> FALSE]
    ELSE IF ~Truthy(parentOf(byTo, cursor)) \/ ~Truthy(byTo[cursor].to)
         THEN [keys |-> keys, visits |-> Append(visits, cursor), finished |-> TRUE]
         ELSE lineageEdgeWalk(byTo, parentOf(byTo, cursor), seen \cup {cursor},
                              keys \cup {edgeKey(byTo[cursor])}, Append(visits, cursor))

\* if (!selectedNodeId) return ids, else the walk from selectedNodeId
NoWalk == [ids |-> {}, keys |-> {}, visits |-> <<>>, finished |-> TRUE]
lineageNodesOf(selected, byTo) ==
    IF ~Truthy(selected) THEN NoWalk ELSE lineageNodeWalk(byTo, selected, {}, {}, <<>>)
lineageEdgesOf(selected, byTo) ==
    IF ~Truthy(selected) THEN NoWalk ELSE lineageEdgeWalk(byTo, selected, {}, {}, <<>>)

\* what the current render derives from the layout and the selection
allEdges == allEdgesOf(spreadData.source, layout.visibleEdges)
edgeByTo == edgeByToOf(allEdges)
lineageNodeIds == lineageNodesOf(selectedNodeId, edgeByTo).ids

\* the edge walk on an index of its own, one that keeps the first edge into each id
lineageEdgeKeysOwnIndex == lineageEdgesOf(selectedNodeId, edgeByToFirst(allEdges)).keys

\* lineageEdgeKeys: the edge walk on the same edgeByTo as the node walk
lineageEdgeKeys == lineageEdgesOf(selectedNodeId, edgeByTo).keys

\* selectedIncomingEdge?.from || null
selectedParentId ==
    IF Truthy(selectedNodeId) THEN parentOf(edgeByTo, selectedNodeId) ELSE Missing

\* the dimming tests with Boolean(selectedNodeId) left out
isDimmedUnselected(id) == id \notin lineageNodeIds

\* isActive, isDimmed of a PinnedPhoto; isActiveEdge, isDimEdge of a yarn line
isActive(id) == Truthy(selectedNodeId) /\ selectedNodeId = id
isDimmed(id) == Truthy(selectedNodeId) /\ id \notin lineageNodeIds
isActiveEdge(edge) == IF Truthy(selectedNodeId) THEN edgeKey(edge) \in lineageEdgeKeys ELSE FALSE
isDimEdge(edge) == Truthy(selectedNodeId) /\ ~isActiveEdge(edge)

\* ---------------------------------------------------------------- yarnPath
\* Math.sqrt(n), rounded down: bisection between lo and hi, lo * lo <= n
RECURSIVE SqrtBetween(_, _, _)
SqrtBetween(n, lo, hi) ==
    IF hi - lo <= 1 THEN lo
    ELSE LET mid == (lo + hi) \div 2
         IN  IF mid * mid <= n THEN SqrtBetween(n, mid, hi) ELSE SqrtBetween(n, lo, mid)

\* 46340 * 46340 is the largest square of the model's integers
Sqrt(n) == SqrtBetween(n, 0, 46340)

\* every connector bent to the same side
yarnSignSame(idx) == 1

\* idx % 2 === 0 ? 1 : -1
yarnSign(idx) == IF idx % 2 = 0 THEN 1 ELSE -1

\* the divisor without its guard: len itself
lenUnguarded(len) == len

\* len || 1
lenOrOne(len) == IF len = 0 THEN POS_SCALE ELSE len

\* yarnPath(x1, y1, x2, y2, idx): the control point of the quadratic curve from
\* (x1, y1) to (x2, y2); finite is FALSE when a coordinate is not a finite
\* number (a division by zero)
yarnPath(x1, y1, x2, y2, idx) ==
    LET mx == (x1 + x2) \div 2
        my == (y1 + y2) \div 2
        dx == x2 - x1
        dy == y2 - y1
        len == Sqrt(dx * dx + dy * dy)
        offsetMag == Min(DivRound(len, YARN_SLACK_DIVISOR), YARN_MAX_OFFSET * POS_SCALE)
                        * yarnSign(idx)
        divisor == lenOrOne(len)
    IN  IF divisor = 0
        THEN [x1 |-> x1, y1 |-> y1, cpx |-> 0, cpy |-> 0, x2 |-> x2, y2 |-> y2,
              finite |-> FALSE]
        ELSE [x1 |-> x1, y1 |-> y1,
              cpx |-> mx + DivRound((-dy) * offsetMag, divisor),
              cpy |-> my + DivRound(dx * offsetMag, divisor),
              x2 |-> x2, y2 |-> y2, finite |-> TRUE]

\* allEdges.map((edge, i) => ...): the indices of the edges drawn, those with
\* both ends positioned
yarnIndices ==
    {i \in 1..Len(allEdges) : /\ allEdges[i].from \in DOMAIN layout.positions
                              /\ allEdges[i].to \in DOMAIN layout.positions}

\* d={yarnPath(from.cx, from.cy, to.cx, to.cy, i)} of the i-th edge (i from 0)
yarnPaths ==
    [i \in yarnIndices |->
        yarnPath(layout.positions[allEdges[i].from].cx, layout.positions[allEdges[i].from].cy,
                 layout.positions[allEdges[i].to].cx, layout.positions[allEdges[i].to].cy,
                 i - 1)]

\* ------------------------------------------------------------- nodeDelays
\* nodeDelays: "__uploaded__", then source.id, then allNodes.slice(1) by index;
\* a later assignment to the same id replaces the earlier one
nodeDelaysOf(source, nodes) ==
    LET rest == [i \in 1..(Len(nodes) - 1) |-> nodes[i + 1].id]
        byIndex == [id \in Range(rest) |->
                      LET i == CHOOSE j \in 1..Len(rest) :
                                  rest[j] = id /\ \A k \in (j + 1)..Len(rest) : rest[k] # id
                      IN  BASE_DELAY + NODE_STAGGER * ((i - 1) + 2)]
    IN  byIndex @@ (source.id :> BASE_DELAY + NODE_STAGGER) @@ (UPLOADED_ID :> BASE_DELAY)

nodeDelays == nodeDelaysOf(spreadData.source, layout.allNodes)

\* ----------------------------------------------------- what the board renders
\* the edges between the source and three listed nodes that make chains, second
\* parents, cycles, a self-loop and an edge back into the source
RenderEdges ==
    {[from |-> SRC, to |-> "n1"], [from |-> "n1", to |-> "n2"], [from |-> "n2", to |-> "n3"],
     [from |-> SRC, to |-> "n2"], [from |-> "n1", to |-> "n3"], [from |-> SRC, to |-> "n3"],
     [from |-> "n2", to |-> "n1"], [from |-> "n3", to |-> "n1"], [from |-> "n2", to |-> "n2"],
     [from |-> "n1", to |-> SRC]}

RenderGraphs ==
    [null : {FALSE}, source : {SourceNode}, nodes : {ChainNodes},
     edges : SeqsUpTo(RenderEdges, MaxEdges)]

InitRender ==
    /\ spreadData \in RenderGraphs
    /\ layout = EmptyLayout
    /\ mounted = FALSE
    /\ layoutRuns = 0
    /\ transform = InitialTransform
    /\ isPanning = FALSE
    /\ lastPos = NoPointer
    /\ selectedNodeId = Missing
    /\ lastEvent = NoEvent
    /\ events = 0
    /\ photo = NoPhoto
    /\ gesture = NoGesture
    /\ app = NoApp

\* the board is mounted, a node is clicked, the popup is closed
NextRender ==
    \/ Mount
    \/ (events = 0 /\ handleSelectNode)
    \/ (events = 1 /\ closePopup)

SpecRender == InitRender /\ [][NextRender]_vars

\* ---------------------------------------------------- ids that hold a '-'
\* node ids are the backend's strings; these hold the '-' the edge keys are
\* joined with
HyphenNodes == <<[id |-> "src-n1"], [id |-> "n1-n2"], [id |-> "n2"]>>
HyphenEdges ==
    {[from |-> SRC, to |-> "src-n1"], [from |-> "src-n1", to |-> "n2"],
     [from |-> SRC, to |-> "n1-n2"], [from |-> "n1-n2", to |-> "n2"]}

HyphenGraphs ==
    [null : {FALSE}, source : {SourceNode}, nodes : {HyphenNodes},
     edges : SeqsUpTo(HyphenEdges, MaxEdges)]

InitKeys ==
    /\ spreadData \in HyphenGraphs
    /\ layout = EmptyLayout
    /\ mounted = FALSE
    /\ layoutRuns = 0
    /\ transform = InitialTransform
    /\ isPanning = FALSE
    /\ lastPos = NoPointer
    /\ selectedNodeId = Missing
    /\ lastEvent = NoEvent
    /\ events = 0
    /\ photo = NoPhoto
    /\ gesture = NoGesture
    /\ app = NoApp

SpecKeys == InitKeys /\ [][NextRender]_vars

\* -------------------------------------------------------------------- App
\* the files the user may pick, and what a response may carry: the verdict
\* derived from an upload result, summary.total_matches of a spread result
\* (a one-element sequence, empty when the response has no summary or count)
Files == {"a.png", "b.png"}
Verdicts == {"ai", "real"}
MatchCounts == {<<>>, <<0>>, <<1>>, <<3>>}
Outcomes == {"ok", "notOk", "thrown"}

\* null, as the value of result and of spreadData
Null == [null |-> TRUE]

\* no handler has run yet
NoStep == [kind |-> "none", outcome |-> "", request |-> 0]

\* App's useState values.  selections counts the file selections and resets
\* so far, inflight holds the fetch calls that have not settled (each with the
\* file it carries and the value of selections when it was issued), started
\* counts the fetch calls, last is the handler step just taken.
InitialApp ==
    [phase |-> "upload", file |-> Missing, uploadLoading |-> FALSE, spreadLoading |-> FALSE,
     result |-> Null, spreadData |-> Null, error |-> FALSE, spreadError |-> FALSE,
     selections |-> 0, inflight |-> {}, started |-> 0, last |-> NoStep]

\* the threshold left out: every successful response counts as a match
hasMatchesAlways(total_matches) == TRUE

\* Number(data?.summary?.total_matches || 0), then !(totalMatches < 1)
hasMatches(total_matches) ==
    (IF total_matches = <<>> THEN 0 ELSE total_matches[1]) >= 1

\* if (phase === 'investigate' && spreadData) return <CorkBoard ... />
boardShown(a) == a.phase = "investigate" /\ a.spreadData # Null

\* a Check button that stays enabled while the upload is loading
checkEnabledWhileLoading(a) == ~boardShown(a) /\ Truthy(a.file)

\* the Check button: UploadForm is rendered, disabled={loading || !canCheck}
checkEnabled(a) == ~boardShown(a) /\ ~a.uploadLoading /\ Truthy(a.file)

\* the Investigate button: ResultsPanel is rendered with a result whose
\* verdict is 'ai' or 'edited', disabled={spreadLoading}
investigateEnabled(a) ==
    /\ ~boardShown(a)
    /\ a.result # Null
    /\ a.result.verdict = "ai"
    /\ ~a.spreadLoading

\* fetch(...) with the file of this call: one more request in flight
issued(a, kind) ==
    [kind |-> kind, file |-> a.file, selections |-> a.selections, n |-> a.started + 1]

\* the board variables are not App's
appOnly == UNCHANGED <<graphVars, viewVars, selectedNodeId, lastEvent, events, photo, gesture>>

handleFileSelect ==
    /\ ~boardShown(app)
    /\ app.selections < MaxSelections
    /\ \E selectedFile \in Files :
          app' = [app EXCEPT !.file = selectedFile, !.phase = "upload", !.result = Null,
                             !.spreadData = Null, !.error = FALSE, !.spreadError = FALSE,
                             !.selections = app.selections + 1,
                             !.last = [NoStep EXCEPT !.kind = "select"]]
    /\ appOnly

resetToUpload ==
    /\ boardShown(app)
    /\ app.selections < MaxSelections
    /\ app' = [app EXCEPT !.phase = "upload", !.file = Missing, !.result = Null,
                          !.spreadData = Null, !.error = FALSE, !.spreadError = FALSE,
                          !.uploadLoading = FALSE, !.spreadLoading = FALSE,
                          !.selections = app.selections + 1,
                          !.last = [NoStep EXCEPT !.kind = "reset"]]
    /\ appOnly

handleCheck ==
    /\ checkEnabled(app)
    /\ app.started < MaxRequests
    /\ app' = [app EXCEPT !.uploadLoading = TRUE, !.error = FALSE, !.spreadError = FALSE,
                          !.result = Null, !.spreadData = Null,
                          !.inflight = app.inflight \cup {issued(app, "upload")},
                          !.started = app.started + 1,
                          !.last = [NoStep EXCEPT !.kind = "check",
                                                  !.request = app.started + 1]]
    /\ appOnly

\* the await of handleCheck resumes: response.ok and response.json(), a
\* response that is not ok, or a rejected fetch; then the finally block
uploadSettles ==
    /\ \E request \in {r \in app.inflight : r.kind = "upload"}, outcome \in Outcomes,
          verdict \in Verdicts :
          LET settled == [app EXCEPT !.inflight = app.inflight \ {request},
                                     !.uploadLoading = FALSE,
                                     !.last = [kind |-> "uploadSettled", outcome |-> outcome,
                                               request |-> request.n]]
          IN  IF outcome = "ok"
              THEN app' = [settled EXCEPT !.result = [null |-> FALSE, file |-> request.file,
                                                      selections |-> request.selections,
                                                      verdict |-> verdict],
                                          !.phase = "results"]
              ELSE /\ verdict = "ai"
                   /\ app' = [settled EXCEPT !.error = TRUE]
    /\ appOnly

\* if (!file) return, else the request is issued
handleInvestigate ==
    /\ investigateEnabled(app)
    /\ app.started < MaxRequests
    /\ IF ~Truthy(app.file)
       THEN app' = [app EXCEPT !.last = [NoStep EXCEPT !.kind = "investigate"]]
       ELSE app' = [app EXCEPT !.spreadLoading = TRUE, !.spreadError = FALSE,
                               !.spreadData = Null,
                               !.inflight = app.inflight \cup {issued(app, "spread")},
                               !.started = app.started + 1,
                               !.last = [NoStep EXCEPT !.kind = "investigate",
                                                       !.request = app.started + 1]]
    /\ appOnly

\* the await of handleInvestigate resumes; a response that is not ok throws
\* into the same catch as a rejected fetch
spreadSettles ==
    /\ \E request \in {r \in app.inflight : r.kind = "spread"}, outcome \in Outcomes,
          total_matches \in MatchCounts :
          LET settled == [app EXCEPT !.inflight = app.inflight \ {request},
                                     !.spreadLoading = FALSE,
                                     !.last = [kind |-> "spreadSettled", outcome |-> outcome,
                                               request |-> request.n]]
          IN  IF outcome = "ok"
              THEN IF hasMatches(total_matches)
                   THEN app' = [settled EXCEPT !.spreadData = [null |-> FALSE,
                                                               file |-> request.file,
                                                               selections |-> request.selections,
                                                               total_matches |-> total_matches],
                                               !.phase = "investigate"]
                   ELSE app' = [settled EXCEPT !.spreadData = Null, !.phase = "results",
                                               !.spreadError = TRUE]
              ELSE /\ total_matches = <<>>
                   /\ app' = [settled EXCEPT !.spreadError = TRUE]
    /\ appOnly

InitApp ==
    /\ spreadData = NullSpread
    /\ layout = EmptyLayout
    /\ mounted = FALSE
    /\ layoutRuns = 0
    /\ transform = InitialTransform
    /\ isPanning = FALSE
    /\ lastPos = NoPointer
    /\ selectedNodeId = Missing
    /\ lastEvent = NoEvent
    /\ events = 0
    /\ photo = NoPhoto
    /\ gesture = NoGesture
    /\ app = InitialApp

NextApp ==
    \/ handleFileSelect
    \/ resetToUpload
    \/ handleCheck
    \/ uploadSettles
    \/ handleInvestigate
    \/ spreadSettles

\* a fetch settles: it resolves or it rejects
SpecApp ==
    InitApp /\ [][NextApp]_vars /\ WF_vars(uploadSettles) /\ WF_vars(spreadSettles)

\* ------------------------------------------------------ PinnedPhoto entrance
\* animDelay: the delays nodeDelays gives a node before and after a graph change
Delays == {700, 1000}

\* an effect without its cleanup: the timer set earlier stays
clearTimeoutMissing(pending, timer) == pending

\* return () => clearTimeout(timer)
clearTimeout(pending, timer) == {t \in pending : t.id # timer}

\* const timer = setTimeout(() => setVisible(true), animDelay || 0)
setTimer(p, delay) ==
    [p EXCEPT !.animDelay = delay,
              !.timers = p.timers + 1,
              !.timer = p.timers + 1,
              !.pending = p.pending \cup {[id |-> p.timers + 1, instance |-> p.instance]}]

\* the effect's cleanup, run before the next effect and on unmount
cleanup(p) ==
    [p EXCEPT !.pending = clearTimeout(p.pending, p.timer),
              !.cleared = p.cleared \cup
                            ({t.id : t \in p.pending} \ {t.id : t \in clearTimeout(p.pending, p.timer)})]

boardVars == <<graphVars, viewVars, selectedNodeId, lastEvent, events, gesture, app>>

\* the node's PinnedPhoto is rendered for the first time: useState(false) and
\* the effect
mountPhoto ==
    /\ ~photo.mounted
    /\ photo.timers < MaxTimers
    /\ \E delay \in Delays :
          photo' = setTimer([photo EXCEPT !.mounted = TRUE, !.visible = FALSE,
                                          !.instance = photo.instance + 1], delay)
    /\ UNCHANGED boardVars

\* the graph changed and the node kept its key with another animDelay: the
\* effect's dependency [animDelay] changed
changeDelay ==
    /\ photo.mounted
    /\ photo.timers < MaxTimers
    /\ \E delay \in Delays \ {photo.animDelay} :
          photo' = setTimer(cleanup(photo), delay)
    /\ UNCHANGED boardVars

\* the node view is removed
unmountPhoto ==
    /\ photo.mounted
    /\ photo' = [cleanup(photo) EXCEPT !.mounted = FALSE, !.visible = FALSE]
    /\ UNCHANGED boardVars

\* a timer the browser holds elapses: () => setVisible(true), which acts on the
\* instance that set the timer while it is mounted
timerFires ==
    /\ \E t \in photo.pending :
          photo' = [photo EXCEPT !.pending = photo.pending \ {t},
                                 !.fired = t.id,
                                 !.visible = IF photo.mounted /\ t.instance = photo.instance
                                             THEN TRUE ELSE photo.visible]
    /\ UNCHANGED boardVars

InitEntrance ==
    /\ spreadData \in ViewGraphs
    /\ layout = buildLayout(spreadData)
    /\ mounted = TRUE
    /\ layoutRuns = 1
    /\ transform = InitialTransform
    /\ isPanning = FALSE
    /\ lastPos = NoPointer
    /\ selectedNodeId = Missing
    /\ lastEvent = NoEvent
    /\ events = 0
    /\ photo = NoPhoto
    /\ gesture = NoGesture
    /\ app = NoApp

NextEntrance == mountPhoto \/ changeDelay \/ unmountPhoto \/ timerFires

\* a timer that is set and not cleared elapses
SpecEntrance == InitEntrance /\ [][NextEntrance]_vars /\ WF_vars(timerFires)

\* ------------------------------------------------ the board given a new graph
\* the graphs the parent passes as the spreadData prop
MemoGraphs ==
    ViewGraphs \cup
    {[null |-> FALSE, source |-> SourceNode,
      nodes |-> <<[id |-> "n1"], [id |-> "n2"]>>,
      edges |-> <<[from |-> SRC, to |-> "n2"], [from |-> "n2", to |-> "n1"]>>]}

\* the parent renders <CorkBoard spreadData={...}> again: the same object or
\* another graph
setSpreadData ==
    /\ Rendered
    /\ spreadData' \in MemoGraphs
    /\ UNCHANGED <<mounted, viewVars, selectedNodeId>>
    /\ Render
    /\ Served([NoEvent EXCEPT !.kind = "spread"])

InitMemo ==
    /\ spreadData \in MemoGraphs
    /\ layout = buildLayout(spreadData)
    /\ mounted = TRUE
    /\ layoutRuns = 1
    /\ transform = InitialTransform
    /\ isPanning = FALSE
    /\ lastPos = NoPointer
    /\ selectedNodeId = Missing
    /\ lastEvent = NoEvent
    /\ events = 0
    /\ photo = NoPhoto
    /\ gesture = NoGesture
    /\ app = NoApp

NextMemo == NextView \/ setSpreadData

SpecMemo == InitMemo /\ [][NextMemo]_vars

\* ------------------------------------------------------------- pan gestures
\* the board on one graph, at a transform wheel events reach, the gesture
\* recorded; the pointer and wheel handlers of the viewport
InitPan ==
    /\ spreadData \in ViewGraphs
    /\ layout = buildLayout(spreadData)
    /\ mounted = TRUE
    /\ layoutRuns = 1
    /\ transform \in ReachedTransforms
    /\ isPanning = FALSE
    /\ lastPos = NoPointer
    /\ selectedNodeId = Missing
    /\ lastEvent = NoEvent
    /\ events = 0
    /\ photo = NoPhoto
    /\ gesture = [NoGesture EXCEPT !.recording = TRUE]
    /\ app = NoApp

NextPan == onMouseDown \/ onMouseMove \/ onMouseUp \/ onWheel

SpecPan == InitPan /\ [][NextPan]_vars

\* ---------------------------------------------------------------- the claims
\* the graph has a source whose id is truthy
ValidSource(data) == ~data.null /\ data.source.defined /\ Truthy(data.source.id)

\* the ids buildLayout knows: the listed nodes and the source
KnownIds(data) == nodeById(data.nodes) \cup {data.source.id}

\* the ids at the end of a walk of exactly k usable edges from the source, every
\* edge of the walk ending in a known id
RECURSIVE HopSet(_, _)
HopSet(data, k) ==
    IF k = 0 THEN {data.source.id}
    ELSE {e.to : e \in {x \in Range(data.edges) :
                            /\ EdgeUsable(x)
                            /\ x.from \in HopSet(data, k - 1)
                            /\ x.to \in KnownIds(data)}}

\* no shortest walk is longer than the number of listed nodes
MaxHops(data) == Len(data.nodes)

HasPath(data, id) == \E k \in 0..MaxHops(data) : id \in HopSet(data, k)

ShortestPath(data, id) ==
    CHOOSE k \in 0..MaxHops(data) :
        id \in HopSet(data, k) /\ \A j \in 0..(k - 1) : id \notin HopSet(data, j)

\* C1: for every graph with a valid source, the depth of each id in the depth
\* map is the length of the shortest directed path from source.id to it along
\* the input edges, edges whose target is no known node being ignored.
C1_DepthIsShortestPath ==
    (mounted /\ ValidSource(spreadData)) =>
        \A id \in DOMAIN layout.depth :
            HasPath(spreadData, id) /\ layout.depth[id] = ShortestPath(spreadData, id)

\* C1 witness: a node of depth 1 that a longer path (two edges) reaches as well,
\* the longer path's last edge coming first in the edge list.
C1_Witness ==
    /\ mounted /\ ValidSource(spreadData)
    /\ \E id \in DOMAIN layout.depth :
          /\ layout.depth[id] = 1
          /\ id \in HopSet(spreadData, 2)
          /\ Len(spreadData.edges) >= 1
          /\ spreadData.edges[1].to = id
          /\ spreadData.edges[1].from \in DOMAIN layout.depth \ {SRC, id}

\* C2: for every graph with a valid source, depth[source.id] = 0 and every other
\* id of the depth map has depth >= 1, whatever cycles or edges back into the
\* source the edge list holds.
C2_OnlySourceAtDepthZero ==
    (mounted /\ ValidSource(spreadData)) =>
        /\ spreadData.source.id \in DOMAIN layout.depth
        /\ layout.depth[spreadData.source.id] = 0
        /\ \A id \in DOMAIN layout.depth \ {spreadData.source.id} : layout.depth[id] >= 1

\* C2 witness: the source is also listed in nodes and an edge leads back into it
\* from a node of depth >= 1.
C2_Witness ==
    /\ mounted /\ ValidSource(spreadData)
    /\ SRC \in nodeById(spreadData.nodes)
    /\ \E i \in 1..Len(spreadData.edges) :
          /\ spreadData.edges[i].to = SRC
          /\ spreadData.edges[i].from \in DOMAIN layout.depth
          /\ layout.depth[spreadData.edges[i].from] >= 1

\* the ids some directed path of input edges leads to from the ids of S
RECURSIVE PathClosure(_, _)
PathClosure(S, edges) ==
    LET next == S \cup {e.to : e \in {x \in Range(edges) : EdgeUsable(x) /\ x.from \in S}}
    IN  IF next = S THEN S ELSE PathClosure(next, edges)

\* C3: a node of the input nodes list with no directed path from source.id is
\* not in reachableNodes (visibleNodes), has no depth and has no position.
C3_UnreachableNodesExcluded ==
    (mounted /\ ValidSource(spreadData)) =>
        \A i \in 1..Len(spreadData.nodes) :
            LET id == spreadData.nodes[i].id
            IN  id \notin PathClosure({spreadData.source.id}, spreadData.edges) =>
                    /\ \A j \in 1..Len(layout.visibleNodes) : layout.visibleNodes[j].id # id
                    /\ id \notin DOMAIN layout.depth
                    /\ id \notin layout.reachableIds
                    /\ id \notin DOMAIN layout.positions

\* C3 witness: a listed node without a path from the source that has an edge
\* into a node the source does reach.
C3_Witness ==
    /\ mounted /\ ValidSource(spreadData)
    /\ \E i \in 1..Len(spreadData.nodes), j \in 1..Len(spreadData.edges) :
          /\ spreadData.nodes[i].id
                \notin PathClosure({spreadData.source.id}, spreadData.edges)
          /\ spreadData.edges[j].from = spreadData.nodes[i].id
          /\ spreadData.edges[j].to \in layout.reachableIds \ {SRC}

\* the ids of a node list, in order
IdsOf(nodes) == [i \in 1..Len(nodes) |-> nodes[i].id]

\* C4: reachableNodes is exactly the input nodes whose id is in the depth map,
\* in input order, the source excluded, whether or not the source is also
\* listed in nodes.
C4_ReachableNodesExcludeSource ==
    (mounted /\ ValidSource(spreadData)) =>
        layout.visibleNodes =
            SelectSeq(spreadData.nodes,
                      LAMBDA n : n.id \in DOMAIN layout.depth
                                   /\ n.id # spreadData.source.id)

\* C5: reachableEdges (visibleEdges) is exactly the subsequence of the input
\* edges, in input order, whose from and to are both in the depth map, the
\* source counting as a member of the depth map.
C5_ReachableEdgesAreDepthMapEdges ==
    (mounted /\ ~layout.threw) =>
        layout.visibleEdges =
            SelectSeq(spreadData.edges,
                      LAMBDA e : e.from \in DOMAIN layout.depth
                                   /\ e.to \in DOMAIN layout.depth)

\* C5 witness: an edge into the source is kept, and an edge into a node of the
\* depth map is dropped because its from is not in the depth map.
C5_Witness ==
    /\ mounted /\ ValidSource(spreadData)
    /\ \E i \in 1..Len(layout.visibleEdges) :
          layout.visibleEdges[i].to = SRC /\ layout.visibleEdges[i].from # SRC
    /\ \E j \in 1..Len(spreadData.edges) :
          /\ spreadData.edges[j].to \in DOMAIN layout.depth
          /\ spreadData.edges[j].from \notin DOMAIN layout.depth
          /\ spreadData.edges[j] \notin Range(layout.visibleEdges)

\* an edge the reduction is to drop: an end is missing, or its to is an id that
\* is neither a listed node nor the source
Dangling(data, e) == ~Truthy(e.from) \/ ~Truthy(e.to) \/ e.to \notin KnownIds(data)

\* the general half of C6: dangling edges give no node, no depth, no reachable
\* edge and no error
DanglingEdgesDropped ==
    (mounted /\ ValidSource(spreadData)) =>
        /\ ~layout.threw
        /\ \A i \in 1..Len(spreadData.edges) :
              Dangling(spreadData, spreadData.edges[i]) =>
                  spreadData.edges[i] \notin Range(layout.visibleEdges)
        /\ DOMAIN layout.depth \subseteq KnownIds(spreadData)
        /\ Range(IdsOf(layout.visibleNodes)) \subseteq KnownIds(spreadData)

\* the example of C6: nodes [src, n1], edges [src->n1, n1->ghost]
DanglingExample ==
    /\ ValidSource(spreadData)
    /\ IdsOf(spreadData.nodes) = <<SRC, "n1">>
    /\ spreadData.edges = <<[from |-> SRC, to |-> "n1"], [from |-> "n1", to |-> GHOST]>>

\* C6: edges whose from or to is missing, or whose to is neither a listed node
\* nor the source, are dropped silently (no node, no depth, no reachable edge,
\* no error); for nodes [src, n1] and edges [src->n1, n1->ghost] the result is
\* reachableNodes = [n1] and reachableEdges = [src->n1].
C6_DanglingEdgesDroppedAndExample ==
    /\ DanglingEdgesDropped
    /\ (mounted /\ DanglingExample) =>
          /\ IdsOf(layout.visibleNodes) = <<"n1">>
          /\ layout.visibleEdges = <<[from |-> SRC, to |-> "n1"]>>

\* C7: when the graph has no source, or source.id is falsy, buildLayout returns
\* an empty result (no reachable nodes, no reachable edges, an empty position
\* map) and raises no exception.
C7_InvalidSourceGivesEmptyResult ==
    (mounted /\ ~spreadData.null /\ ~ValidSource(spreadData)) =>
        /\ ~layout.threw
        /\ layout.visibleNodes = <<>>
        /\ layout.visibleEdges = <<>>
        /\ DOMAIN layout.positions = {}

\* |centre of pos - canvas centre| = radius, to within one pixel
OnRing(pos, radius) ==
    LET dx == pos.cx - CENTER_X * POS_SCALE
        dy == pos.cy - CENTER_Y * POS_SCALE
        d2 == dx * dx + dy * dy
        lo == (radius - 1) * POS_SCALE
        hi == (radius + 1) * POS_SCALE
    IN  lo * lo <= d2 /\ d2 <= hi * hi

\* the reachable nodes other than the source
NonSourceVisible ==
    {i \in 1..Len(layout.visibleNodes) : layout.visibleNodes[i].id # spreadData.source.id}

\* C8 as stated: every reachable non-source node of depth d lies on the ring of
\* radius d x ringSpacing around the canvas centre (260 for depth 1).
C8_RingRadiusIsDepthTimesSpacing ==
    (mounted /\ ValidSource(spreadData)) =>
        \A i \in NonSourceVisible :
            LET id == layout.visibleNodes[i].id
            IN  OnRing(layout.positions[id], layout.depth[id] * RING_SPACING)

\* C8 as amended: every reachable non-source node of depth d lies on the ring of
\* radius (d + 1) x ringSpacing around the canvas centre (520 for depth 1), and
\* its top-left is its centre minus half the node box.
C8_RingRadiusIsDepthPlusOneTimesSpacing ==
    (mounted /\ ValidSource(spreadData)) =>
        \A i \in NonSourceVisible :
            LET id == layout.visibleNodes[i].id
                pos == layout.positions[id]
            IN  /\ OnRing(pos, (layout.depth[id] + 1) * RING_SPACING)
                /\ layout.depth[id] = 1 => OnRing(pos, 520)
                /\ pos.x = pos.cx - (NODE_W * POS_SCALE) \div 2
                /\ pos.y = pos.cy - (NODE_H * POS_SCALE) \div 2

\* C8 witness: a node placed on each of the rings of depth 1, 2 and 3.
C8_Witness ==
    /\ mounted /\ ValidSource(spreadData)
    /\ \E i, j, k \in NonSourceVisible :
          /\ layout.depth[layout.visibleNodes[i].id] = 1
          /\ layout.depth[layout.visibleNodes[j].id] = 2
          /\ layout.depth[layout.visibleNodes[k].id] = 3
          /\ layout.visibleNodes[i].id \in DOMAIN layout.positions
          /\ layout.visibleNodes[j].id \in DOMAIN layout.positions
          /\ layout.visibleNodes[k].id \in DOMAIN layout.positions

\* C9: for every graph with a valid source, source.id is placed with its centre
\* at the canvas centre (1000, 800) and its top-left at the centre minus half
\* the node box, whether or not the source is also listed in nodes.
C9_SourceAtCanvasCenter ==
    (mounted /\ ValidSource(spreadData)) =>
        /\ spreadData.source.id \in DOMAIN layout.positions
        /\ layout.positions[spreadData.source.id] =
              [x |-> (1000 - 80) * POS_SCALE, y |-> (800 - 100) * POS_SCALE,
               cx |-> 1000 * POS_SCALE, cy |-> 800 * POS_SCALE]

RingMembers(data, depth, d) ==
    IdsOf(SelectSeq(data.nodes, LAMBDA n : n.id \in DOMAIN depth /\ depth[n.id] = d))

\* the centre of angular slot i of the n slots of the ring of depth d: the
\* angle d x 0.4 + i x 2 pi / n - pi / 2 on the circle of that ring
SlotCentre(d, i, n) ==
    LET angle == d * RING_SKEW + (i * 2 * PI) \div n - (PI \div 2)
    IN  [cx |-> CENTER_X * POS_SCALE + (RingRadius(d) * Cos(angle) * POS_SCALE) \div TRIG_SCALE,
         cy |-> CENTER_Y * POS_SCALE + (RingRadius(d) * Sin(angle) * POS_SCALE) \div TRIG_SCALE]

\* the centre of pos is the point c, to within one pixel on each axis
CentredAt(pos, c) ==
    /\ pos.cx - c.cx \in -POS_SCALE..POS_SCALE
    /\ pos.cy - c.cy \in -POS_SCALE..POS_SCALE

\* C12: within a ring of n reachable nodes, the i-th node of the ring in the
\* order of the input nodes list is placed on angular slot i - 1 of the n slots
\* of step 2 pi / n, and no two distinct nodes of a ring share a position.
C12_RingSlotsDistinctInInputOrder ==
    (mounted /\ ValidSource(spreadData)) =>
        \A d \in {layout.depth[id] : id \in DOMAIN layout.depth} :
            LET ids == RingMembers(spreadData, layout.depth, d)
                n == Len(ids)
            IN  \A i \in 1..n :
                    /\ ids[i] \in DOMAIN layout.positions
                    /\ CentredAt(layout.positions[ids[i]], SlotCentre(d, i - 1, n))
                    /\ \A j \in 1..n : (i # j) =>
                          layout.positions[ids[i]] # layout.positions[ids[j]]

\* C12 witness: a ring of three nodes and a ring of two nodes are laid out.
C12_Witness ==
    /\ mounted /\ ValidSource(spreadData)
    /\ \E d \in 1..3 : Len(RingMembers(spreadData, layout.depth, d)) = 3
          \/ (/\ Len(RingMembers(spreadData, layout.depth, d)) = 2
              /\ Len(RingMembers(spreadData, layout.depth, d + 1)) = 1)

\* C13: after any sequence of wheel events interleaved with pan events and
\* selections, the viewport scale lies between 0.2 and 2.0.
C13_ScaleWithinLimits ==
    /\ (2 * ZOOM_SCALE) \div 10 <= transform.scale
    /\ transform.scale <= 2 * ZOOM_SCALE

\* C13 witness: during a pan, a wheel notch that zooms out has left the scale on
\* its lower limit.
C13_Witness ==
    /\ lastEvent.kind = "wheel" /\ lastEvent.deltaY > 0
    /\ isPanning
    /\ transform.scale = (2 * ZOOM_SCALE) \div 10

Abs(a) == IF a < 0 THEN -a ELSE a

\* the world coordinates (p - offset) / scale and (p - offset2) / scale2 differ
\* by less than a tenth of a screen pixel at scale2
SameWorld(p, offset, scale, offset2, scale2) ==
    Abs((p - offset) * scale2 - (p - offset2) * scale) <= scale

C17_PointerUpOrLeaveEndsPan ==
    [][/\ (lastEvent'.kind \in {"mouseup", "mouseleave"}) => ~isPanning'
       /\ (~isPanning /\ lastEvent'.kind = "mousemove") => (transform' = transform)
       /\ (~isPanning /\ isPanning') =>
              (lastEvent'.kind = "mousedown" /\ lastEvent'.target = "viewport")]_vars

\* C17 witness: a pan was begun, ended by the pointer leaving the viewport, and
\* a pointer-move has been served since.
C17_Witness ==
    /\ lastEvent.kind = "mousemove"
    /\ ~isPanning
    /\ events = 3
    /\ lastPos # NoPointer
    /\ transform \in ReachedTransforms

\* C18: a pointer-move while Panning adds to the offset the pointer position
\* minus the last recorded position, records the pointer position and keeps the
\* scale; a pointer-move while Idle changes neither the transform nor the
\* recorded position.
C18_PointerMovePansByDelta ==
    [][(lastEvent'.kind = "mousemove") =>
          IF isPanning
          THEN /\ transform'.x = transform.x + lastEvent'.pointer.x - lastPos.x
               /\ transform'.y = transform.y + lastEvent'.pointer.y - lastPos.y
               /\ transform'.scale = transform.scale
               /\ lastPos' = lastEvent'.pointer
          ELSE transform' = transform /\ lastPos' = lastPos]_vars

\* C18 witness: two pointer-moves of one pan have dragged the board to an
\* offset that is neither the initial one nor any pointer delta.
C18_Witness ==
    /\ lastEvent.kind = "mousemove"
    /\ isPanning
    /\ events = 3
    /\ lastPos = lastEvent.pointer
    /\ transform.x = -120 * POS_SCALE + 300 * POS_SCALE
    /\ transform.y = 60 * POS_SCALE + 220 * POS_SCALE

\* C19: a wheel event changes neither the pan phase nor the recorded last
\* pointer position, and the pointer-move after a wheel event of a pan drags
\* the board by the delta from that recorded position.
C19_WheelKeepsPanPhase ==
    [][/\ (lastEvent'.kind = "wheel") =>
              (isPanning' = isPanning /\ lastPos' = lastPos)
       /\ (lastEvent.kind = "wheel" /\ isPanning /\ lastEvent'.kind = "mousemove") =>
              /\ isPanning'
              /\ transform'.x - transform.x = lastEvent'.pointer.x - lastPos.x
              /\ transform'.y - transform.y = lastEvent'.pointer.y - lastPos.y]_vars

\* C19 witness: a wheel step that changed the scale has been served in the
\* middle of a pan, the pan still in progress.
C19_Witness ==
    /\ lastEvent.kind = "wheel" /\ lastEvent.deltaY = 10
    /\ isPanning
    /\ lastPos \in Pointers \ {lastEvent.pointer}
    /\ transform.scale \notin {s.scale : s \in ReachedTransforms}

\* C20: no pointer, wheel, select or clear event changes the input graph or the
\* layout derived from it (depth map, reachable lists, positions): after every
\* event the layout is still the layout of the unchanged graph.
C20_InteractionLeavesLayoutAlone ==
    [][(events' # events) =>
          /\ spreadData' = spreadData
          /\ layout' = layout
          /\ layout' = buildLayout(spreadData)]_vars

\* C20 witness: a node is selected on a board that is being panned and has been
\* dragged or zoomed away from where it started.
C20_Witness ==
    /\ events = MaxEvents
    /\ Truthy(selectedNodeId)
    /\ isPanning
    /\ transform \notin ReachedTransforms
    /\ layout.positions["n1"] = RingPosition(1, 0, 1)

\* C21: no pointer, wheel, select or clear event re-runs buildLayout or
\* changes the layout; buildLayout runs once more exactly when the graph given
\* to the board changes; pan and zoom events write nothing but the viewport.
C21_LayoutMemoizedOnGraph ==
    [][/\ (events' # events /\ lastEvent'.kind # "spread") =>
              (layoutRuns' = layoutRuns /\ layout' = layout)
       /\ (lastEvent'.kind = "spread" /\ events' # events) =>
              layoutRuns' = layoutRuns + (IF spreadData' = spreadData THEN 0 ELSE 1)
       /\ (events' # events /\ lastEvent'.kind \in {"mousemove", "wheel"}) =>
              (spreadData' = spreadData /\ selectedNodeId' = selectedNodeId)
       /\ layout' = buildLayout(spreadData')]_vars

\* C21 witness: the graph changed once, between events, and buildLayout has run
\* twice, the last event a wheel step.
C21_Witness ==
    /\ layoutRuns = 2
    /\ events = 3
    /\ lastEvent.kind = "wheel" /\ lastEvent.deltaY = -10
    /\ transform.scale # INITIAL_SCALE

\* ids from which id is reached along the edges, id itself included
RECURSIVE UpSet(_, _, _)
UpSet(edges, ids, k) ==
    IF k = 0 THEN ids
    ELSE UpSet(edges, ids \cup {e.from : e \in {x \in Range(edges) : x.to \in ids}}, k - 1)

SelfAndAncestors(edges, id) == UpSet(edges, {id}, Len(edges))

\* every id has at most one incoming edge and no id is its own ancestor
TreeShaped(edges) ==
    /\ \A i, j \in 1..Len(edges) : (edges[i].to = edges[j].to) => i = j
    /\ \A i \in 1..Len(edges) :
          edges[i].to \notin SelfAndAncestors(edges, edges[i].from)

\* the keys "from-to" of the edges that end in one of the ids
KeysInto(edges, ids) ==
    {x.from \o "-" \o x.to : x \in {e \in Range(edges) : e.to \in ids}}

\* a node of the graph is selected on the mounted board
GraphNodeSelected ==
    mounted /\ Truthy(selectedNodeId) /\ selectedNodeId # UPLOADED_ID

\* C22 as stated: on a reachable edge list where every node has at most one
\* incoming edge and there is no cycle, the lineage of the selected node is
\* exactly the node and its ancestors, with exactly the edges of that chain;
\* for the chain src->n1, n1->n2, n2->n3 the lineage of n3 is {src, n1, n2, n3}
\* with the edges {src-n1, n1-n2, n2-n3}.
C22_LineageIsAncestorChain ==
    (GraphNodeSelected /\ TreeShaped(layout.visibleEdges)) =>
        LET chain == SelfAndAncestors(layout.visibleEdges, selectedNodeId)
        IN  /\ lineageNodeIds = chain
            /\ lineageEdgeKeys = KeysInto(layout.visibleEdges, chain)
            /\ (spreadData.edges = <<[from |-> SRC, to |-> "n1"], [from |-> "n1", to |-> "n2"],
                                     [from |-> "n2", to |-> "n3"]>>
                  /\ selectedNodeId = "n3") =>
                   /\ lineageNodeIds = {SRC, "n1", "n2", "n3"}
                   /\ lineageEdgeKeys = {"src-n1", "n1-n2", "n2-n3"}

\* C22 amended: on such an edge list the lineage of the selected node is the
\* node, its ancestors and the uploaded image, with the edges of that chain and
\* the edge from the uploaded image to the source; for the chain src->n1,
\* n1->n2, n2->n3 the lineage of n3 is {__uploaded__, src, n1, n2, n3} with the
\* edges {__uploaded__-src, src-n1, n1-n2, n2-n3}.
C22_LineageIsAncestorChainAndUpload ==
    (GraphNodeSelected /\ TreeShaped(layout.visibleEdges)) =>
        LET chain == SelfAndAncestors(layout.visibleEdges, selectedNodeId)
        IN  /\ lineageNodeIds = chain \cup {"__uploaded__"}
            /\ lineageEdgeKeys = KeysInto(layout.visibleEdges, chain) \cup {"__uploaded__-src"}
            /\ (spreadData.edges = <<[from |-> SRC, to |-> "n1"], [from |-> "n1", to |-> "n2"],
                                     [from |-> "n2", to |-> "n3"]>>
                  /\ selectedNodeId = "n3") =>
                   /\ lineageNodeIds = {"__uploaded__", SRC, "n1", "n2", "n3"}
                   /\ lineageEdgeKeys = {"__uploaded__-src", "src-n1", "n1-n2", "n2-n3"}

\* C22 witness: n3 is selected at the end of the chain src->n1, n1->n2, n2->n3.
C22_Witness ==
    /\ GraphNodeSelected
    /\ selectedNodeId = "n3"
    /\ spreadData.edges = <<[from |-> SRC, to |-> "n1"], [from |-> "n1", to |-> "n2"],
                            [from |-> "n2", to |-> "n3"]>>
    /\ Cardinality(lineageEdgeKeys) = 4

\* C23 as stated: the selected id is always in the lineage node set, and
\* selecting the source gives the node set {src} and no edges.
C23_SourceLineageIsSourceAlone ==
    (mounted /\ Truthy(selectedNodeId)) =>
        /\ selectedNodeId \in lineageNodeIds
        /\ (selectedNodeId = spreadData.source.id) =>
              (lineageNodeIds = {SRC} /\ lineageEdgeKeys = {})

\* C23 amended: the selected id is always in the lineage node set; selecting
\* the source gives the node set {src, __uploaded__} and the one edge
\* __uploaded__-src when no reachable edge ends in the source, and otherwise
\* the walk goes on from the source along the last reachable edge into it.
C23_SourceLineageIsSourceAndUpload ==
    (mounted /\ Truthy(selectedNodeId)) =>
        /\ selectedNodeId \in lineageNodeIds
        /\ (selectedNodeId = spreadData.source.id) =>
              LET into == SelectSeq(layout.visibleEdges, LAMBDA e : e.to = SRC)
              IN  IF into = <<>>
                  THEN /\ lineageNodeIds = {SRC, "__uploaded__"}
                       /\ lineageEdgeKeys = {"__uploaded__-src"}
                  ELSE /\ into[Len(into)].from \in lineageNodeIds
                       /\ (into[Len(into)].from \o "-src") \in lineageEdgeKeys
                       /\ "__uploaded__" \notin lineageNodeIds

\* C23 witness: the source of a graph with reachable nodes is selected.
C23_Witness ==
    /\ mounted
    /\ selectedNodeId = SRC
    /\ Len(layout.visibleNodes) = 3
    /\ lineageNodeIds = {SRC, "__uploaded__"}

\* the from of the edge into id that comes last in the edge list, if any
LastParent(edges, id) ==
    LET into == SelectSeq(edges, LAMBDA e : e.to = id)
    IN  IF into = <<>> THEN Missing ELSE into[Len(into)].from

\* id, its last parent, that one's last parent, and so on
RECURSIVE LastParentChain(_, _, _)
LastParentChain(edges, id, k) ==
    IF k = 0 \/ ~Truthy(id) THEN {}
    ELSE {id} \cup LastParentChain(edges, LastParent(edges, id), k - 1)

\* C24: the parent of a node is the from of its incoming edge that comes last
\* in the edge list: the selected node's parent is that one, the lineage is the
\* chain of such parents with the edges from each to its child, and an earlier
\* incoming edge adds neither its from nor itself.
C24_LastIncomingEdgeWins ==
    (mounted /\ Truthy(selectedNodeId)) =>
        LET chain == LastParentChain(allEdges, selectedNodeId, Len(allEdges) + 1)
        IN  /\ selectedParentId = LastParent(allEdges, selectedNodeId)
            /\ lineageNodeIds = chain
            /\ lineageEdgeKeys =
                  {LastParent(allEdges, id) \o "-" \o id :
                      id \in {c \in chain : Truthy(LastParent(allEdges, c))}}

\* C24 witness: the selected node has two incoming edges from different
\* parents, and the parent of the earlier edge is outside the lineage.
C24_Witness ==
    /\ mounted /\ Truthy(selectedNodeId)
    /\ \E i, j \in 1..Len(allEdges) :
          /\ i < j
          /\ allEdges[i].to = selectedNodeId /\ allEdges[j].to = selectedNodeId
          /\ allEdges[i].from # allEdges[j].from
          /\ allEdges[i].from \notin lineageNodeIds
          /\ allEdges[i].from # UPLOADED_ID

\* the walk ended by itself, visited no id twice, and ended on an id that has no
\* incoming edge or whose parent it had already visited
WalkStopsCleanly(walk) ==
    /\ walk.finished
    /\ \A i, j \in 1..Len(walk.visits) : (walk.visits[i] = walk.visits[j]) => i = j
    /\ Len(walk.visits) >= 1
    /\ LET last == walk.visits[Len(walk.visits)]
       IN  \/ ~Truthy(LastParent(allEdges, last))
           \/ LastParent(allEdges, last) \in Range(walk.visits)

\* C25: for every edge list, cycles and self-loops included, and every selected
\* id, both lineage walks terminate: each visits every id at most once and
\* stops at an id without incoming edge or whose parent was already visited.
C25_LineageWalkTerminates ==
    (mounted /\ Truthy(selectedNodeId)) =>
        /\ WalkStopsCleanly(lineageNodesOf(selectedNodeId, edgeByTo))
        /\ WalkStopsCleanly(lineageEdgesOf(selectedNodeId, edgeByTo))

\* C25 witness: the selected node lies on a cycle of two or more nodes: the walk
\* has come back to an id it had visited, on a graph that also has the
\* self-loop n2->n2.
C25_Witness ==
    /\ mounted /\ Truthy(selectedNodeId)
    /\ LET walk == lineageNodesOf(selectedNodeId, edgeByTo)
           last == walk.visits[Len(walk.visits)]
       IN  /\ Len(walk.visits) >= 2
           /\ LastParent(allEdges, last) \in Range(walk.visits)
           /\ [from |-> "n2", to |-> "n2"] \in Range(allEdges)

\* the ids of the PinnedPhotos on the board
BoardIds == {UPLOADED_ID} \cup nodeIdsOf(layout.allNodes)

\* C26: while no node is selected, initially and after the popup's close
\* button, the lineage sets are empty and no node and no edge is dimmed or
\* active; a node or edge is dimmed only while a node is selected and it is
\* outside that node's lineage, and every such node and edge is dimmed.
C26_NoSelectionNoHighlight ==
    mounted =>
        /\ ~Truthy(selectedNodeId) =>
              /\ lineageNodeIds = {} /\ lineageEdgeKeys = {}
              /\ \A id \in BoardIds : ~isDimmed(id) /\ ~isActive(id)
              /\ \A i \in 1..Len(allEdges) :
                    ~isDimEdge(allEdges[i]) /\ ~isActiveEdge(allEdges[i])
        /\ \A id \in BoardIds :
              isDimmed(id) <=> (Truthy(selectedNodeId) /\ id \notin lineageNodeIds)
        /\ \A i \in 1..Len(allEdges) :
              isDimEdge(allEdges[i]) <=>
                 (/\ Truthy(selectedNodeId)
                  /\ (allEdges[i].from \o "-" \o allEdges[i].to) \notin lineageEdgeKeys)

\* C26 witness: a selection that dimmed nodes has been cleared with the popup's
\* close button, on a board with three reachable nodes.
C26_Witness ==
    /\ mounted
    /\ lastEvent.kind = "clear"
    /\ ~Truthy(selectedNodeId)
    /\ Len(layout.visibleNodes) = 3
    /\ Len(allEdges) = 4

\* C27: a timer that was cancelled, by the removal of the node view or by the
\* replacement of its delay, never fires: the only timer that fires is the one
\* the mounted view's current effect set; a visible node stays visible while
\* its view stays mounted; and a view that stays mounted with its delay
\* unchanged becomes visible.
C27_EntranceTimerOneShotCancelable ==
    /\ [][(photo'.fired # photo.fired) =>
              /\ photo.mounted
              /\ photo'.fired = photo.timer
              /\ photo'.fired \notin photo.cleared
              /\ photo'.visible]_vars
    /\ [][(photo.mounted /\ photo.visible /\ photo'.mounted) => photo'.visible]_vars
    /\ \A t \in 1..(MaxTimers + 1) :
          (photo.mounted /\ photo.timer = t) ~>
              (photo.visible \/ ~photo.mounted \/ photo.timer # t)

\* C27 witness: the node's delay was replaced before its first timer elapsed,
\* that timer was cancelled, and the second timer has made the node visible.
C27_Witness ==
    /\ photo.mounted /\ photo.visible
    /\ photo.cleared = {1}
    /\ photo.fired = 2
    /\ photo.instance = 1

\* ------------------------------------------------------------------ C28, C29
\* the two ends of the i-th connector and what the claims measure on it:
\* the segment vector, its length, twice the displacement of the control
\* point from the midpoint, and the side of the segment the control point is on
YarnFrom(i) == layout.positions[allEdges[i].from]
YarnTo(i) == layout.positions[allEdges[i].to]
YarnDx(i) == YarnTo(i).cx - YarnFrom(i).cx
YarnDy(i) == YarnTo(i).cy - YarnFrom(i).cy
YarnLen(i) == Sqrt(YarnDx(i) * YarnDx(i) + YarnDy(i) * YarnDy(i))
YarnUx(i) == 2 * yarnPaths[i].cpx - (YarnFrom(i).cx + YarnTo(i).cx)
YarnUy(i) == 2 * yarnPaths[i].cpy - (YarnFrom(i).cy + YarnTo(i).cy)
YarnSide(i) == YarnDx(i) * YarnUy(i) - YarnDy(i) * YarnUx(i)
YarnAlong(i) == YarnDx(i) * YarnUx(i) + YarnDy(i) * YarnUy(i)
YarnMagnitude(i) == Min(DivRound(YarnLen(i), 10), 40 * POS_SCALE)
\* half a pixel: above the rounding of the midpoint, the length and the two
\* products, doubled
YarnTolerance == POS_SCALE \div 2
SamePoints(i, j) == YarnFrom(i) = YarnFrom(j) /\ YarnTo(i) = YarnTo(j)

\* C28: the control point of every connector of positive length lies off the
\* midpoint along the segment's normal (no component along the segment beyond
\* rounding), at distance min(0.1 x length, 40 px), on the +normal side for an
\* even index and on the -normal side for an odd one; two connectors with
\* consecutive indices between the same two points curve to opposite sides.
C28_YarnControlAlternatesAlongNormal ==
    /\ \A i \in yarnIndices :
         YarnLen(i) > 0 =>
            /\ yarnPaths[i].finite
            /\ Abs(YarnAlong(i)) <= YarnTolerance * (Abs(YarnDx(i)) + Abs(YarnDy(i)))
            /\ YarnUx(i) * YarnUx(i) + YarnUy(i) * YarnUy(i)
                 <= (2 * YarnMagnitude(i) + YarnTolerance) * (2 * YarnMagnitude(i) + YarnTolerance)
            /\ 2 * YarnMagnitude(i) > YarnTolerance =>
                 /\ YarnUx(i) * YarnUx(i) + YarnUy(i) * YarnUy(i)
                      >= (2 * YarnMagnitude(i) - YarnTolerance) * (2 * YarnMagnitude(i) - YarnTolerance)
                 /\ IF (i - 1) % 2 = 0 THEN YarnSide(i) > 0 ELSE YarnSide(i) < 0
    /\ \A i \in yarnIndices :
         (i + 1 \in yarnIndices /\ SamePoints(i, i + 1) /\ 2 * YarnMagnitude(i) > YarnTolerance)
            => (YarnSide(i) > 0) # (YarnSide(i + 1) > 0)

\* the same edge drawn twice in a row between two distinct points, once bent at
\* the capped magnitude and once below the cap
C28_Witness ==
    /\ mounted
    /\ \E i \in yarnIndices :
         /\ i + 1 \in yarnIndices /\ SamePoints(i, i + 1)
         /\ YarnLen(i) > 0
         /\ (YarnSide(i) > 0 /\ YarnSide(i + 1) < 0) \/ (YarnSide(i) < 0 /\ YarnSide(i + 1) > 0)
    /\ \E i \in yarnIndices : YarnMagnitude(i) = 40 * POS_SCALE
    /\ \E i \in yarnIndices : YarnMagnitude(i) \in 1..(40 * POS_SCALE - 1)

Coincident(i) == YarnFrom(i).cx = YarnTo(i).cx /\ YarnFrom(i).cy = YarnTo(i).cy

\* C29: a connector whose two ends are the same point (length 0) is computed
\* without a division by zero: every coordinate is a finite number and the
\* control point is the common point, whatever the parity of its index.
C29_CoincidentEndsGiveStraightYarn ==
    \A i \in yarnIndices :
        Coincident(i) =>
            /\ yarnPaths[i].finite
            /\ yarnPaths[i].cpx = YarnFrom(i).cx
            /\ yarnPaths[i].cpy = YarnFrom(i).cy

\* a self-loop drawn at an even index and at an odd index of the same render
C29_Witness ==
    /\ mounted
    /\ \E i, j \in yarnIndices :
         /\ Coincident(i) /\ Coincident(j)
         /\ (i - 1) % 2 = 0 /\ (j - 1) % 2 = 1
         /\ yarnPaths[i].cpx = YarnFrom(i).cx /\ yarnPaths[j].cpy = YarnFrom(j).cy

\* ------------------------------------------------------------------------ C30
\* C30: on the rendered board the uploaded image has the earliest entrance
\* delay, the source the next one, and of two other nodes the one of smaller
\* BFS depth never has the later delay.
C30_DelaysFollowDepth ==
    mounted =>
        /\ \A id \in DOMAIN nodeDelays \ {UPLOADED_ID} :
              nodeDelays[UPLOADED_ID] < nodeDelays[id]
        /\ \A id \in DOMAIN nodeDelays \ {UPLOADED_ID, spreadData.source.id} :
              nodeDelays[spreadData.source.id] < nodeDelays[id]
        /\ \A a, b \in nodeIdsOf(layout.visibleNodes) :
              layout.depth[a] < layout.depth[b] => nodeDelays[a] <= nodeDelays[b]

\* ------------------------------------------------------------------------ C31
\* C31: throughout and at the end of a pan gesture (a pointer-down on the
\* background at p0, then pointer-moves only, the last at pk, then the
\* pointer-up) the offset is the offset at the pointer-down plus (pk - p0) and
\* the scale is the scale at the pointer-down, whatever the positions of the
\* moves in between and whatever the scale.
C31_PanGestureMovesByNetDelta ==
    (gesture.started /\ gesture.plain) =>
        /\ transform.x = gesture.from.x + (gesture.pk.x - gesture.p0.x)
        /\ transform.y = gesture.from.y + (gesture.pk.y - gesture.p0.y)
        /\ transform.scale = gesture.from.scale

\* a gesture ended by its pointer-up, away from its start, not at scale 1
C31_Witness ==
    /\ lastEvent.kind = "mouseup"
    /\ gesture.started /\ gesture.plain /\ gesture.ended
    /\ gesture.moves >= 1
    /\ gesture.pk # gesture.p0
    /\ gesture.from.scale = MAX_SCALE
    /\ transform.x = gesture.from.x + (gesture.pk.x - gesture.p0.x)
    /\ ~isPanning

\* ------------------------------------------------------------------------ C32
\* C32: whenever the selected node is reachable from the source, the lineage
\* node set holds the source id.
C32_LineageReachesSource ==
    (mounted /\ Truthy(selectedNodeId) /\ selectedNodeId \in layout.reachableIds)
        => spreadData.source.id \in lineageNodeIds

\* ------------------------------------------------------------------------ C33
\* the edge from a to b is in the lineage edge set
LineageEdge(a, b) == (a \o "-" \o b) \in lineageEdgeKeys

\* C33: the lineage node set and the lineage edge set of a render agree: every
\* edge of the edge set runs between two nodes of the node set, and every node
\* of the node set other than the selected one is the `from` of an edge of the
\* edge set.
C33_LineageSetsConsistent ==
    mounted =>
        /\ \A k \in lineageEdgeKeys : \E a, b \in lineageNodeIds : k = a \o "-" \o b
        /\ \A a \in lineageNodeIds \ {selectedNodeId} : \E b \in lineageNodeIds : LineageEdge(a, b)

\* a node with two incoming edges selected, its lineage through the later one
\* back to the uploaded image
C33_Witness ==
    /\ mounted
    /\ selectedNodeId = "n3"
    /\ spreadData.edges = <<[from |-> SRC, to |-> "n1"], [from |-> SRC, to |-> "n3"],
                            [from |-> "n1", to |-> "n3"]>>
    /\ lineageNodeIds = {"n3", "n1", SRC, UPLOADED_ID}
    /\ Cardinality(lineageEdgeKeys) = 3

\* ------------------------------------------------------------------------ C34
\* the edge is the one edgeByTo holds for its target, and its target is a node
\* of the lineage walk
OnLineageChain(edge) ==
    /\ Truthy(selectedNodeId)
    /\ edge.to \in lineageNodeIds
    /\ edge.to \in DOMAIN edgeByTo
    /\ edgeByTo[edge.to] = edge

\* C34: an edge is drawn active exactly when it is the indexed incoming edge of
\* a node of the current lineage walk (edges compared by their two ends, so a
\* parallel copy of an indexed edge counts as that edge).
C34_ActiveEdgesAreLineageEdges ==
    mounted => \A i \in 1..Len(allEdges) : isActiveEdge(allEdges[i]) <=> OnLineageChain(allEdges[i])

\* ------------------------------------------------------------------------ C35
\* C35: for a graph with a valid source the keys of the position map are
\* exactly source.id, "__uploaded__" and the ids of the reachable nodes; so
\* both ends of every reachable edge have a position and every edge of the
\* render is drawn, and every node of the rendered node list has a position.
C35_PositionsCoverTheRender ==
    (mounted /\ ValidSource(spreadData)) =>
        /\ ~layout.threw
        /\ DOMAIN layout.positions
             = {spreadData.source.id, UPLOADED_ID} \cup nodeIdsOf(layout.visibleNodes)
        /\ \A i \in 1..Len(layout.visibleEdges) :
              /\ layout.visibleEdges[i].from \in DOMAIN layout.positions
              /\ layout.visibleEdges[i].to \in DOMAIN layout.positions
        /\ yarnIndices = 1..Len(allEdges)
        /\ \A i \in 1..Len(layout.allNodes) : layout.allNodes[i].id \in DOMAIN layout.positions

\* a render with a reachable node, a listed node left out as unreachable, and
\* reachable edges, one of them back into the source
C35_Witness ==
    /\ mounted /\ ValidSource(spreadData)
    /\ Len(layout.visibleNodes) >= 1
    /\ Len(layout.visibleNodes) < Len(spreadData.nodes)
    /\ Len(layout.visibleEdges) >= 2
    /\ \E i \in 1..Len(layout.visibleEdges) : layout.visibleEdges[i].to = spreadData.source.id
    /\ Cardinality(DOMAIN layout.positions) = 3
    /\ yarnIndices = 1..Len(allEdges)

\* ------------------------------------------------------------------------ C36
\* C36: the result and the spread graph App holds, and the investigate phase,
\* come from requests issued for the file now selected, after the last file
\* selection or reset: a response to an earlier request never sets them.
C36_ResponsesBelongToCurrentFile ==
    /\ app.result # Null =>
          app.result.selections = app.selections /\ app.result.file = app.file
    /\ app.spreadData # Null =>
          app.spreadData.selections = app.selections /\ app.spreadData.file = app.file
    /\ app.phase = "investigate" => app.spreadData # Null

\* ------------------------------------------------------------------------ C37
\* C37: the board is shown only in phase investigate with a spread graph; the
\* spread graph App holds always comes from a successful spread response with
\* at least one match; a successful response with fewer than one match leaves
\* spreadData null, the phase at results and a spread error set; a failed
\* response sets a spread error and leaves the phase as it was.
C37_BoardOnlyOnMatches ==
    /\ [](boardShown(app) => app.phase = "investigate" /\ app.spreadData # Null)
    /\ [](app.spreadData # Null =>
             /\ app.spreadData.total_matches # <<>>
             /\ app.spreadData.total_matches[1] >= 1)
    /\ [][app'.spreadData # app.spreadData /\ app'.spreadData # Null =>
             /\ app'.last.kind = "spreadSettled" /\ app'.last.outcome = "ok"
             /\ app'.phase = "investigate"]_vars
    /\ [][(app'.last.kind = "spreadSettled" /\ app'.last.outcome = "ok"
             /\ app'.phase # "investigate") =>
             /\ app'.spreadData = Null
             /\ app'.phase = "results"
             /\ app'.spreadError]_vars
    /\ [][(app'.last.kind = "spreadSettled" /\ app'.last.outcome # "ok") =>
             /\ app'.spreadError
             /\ app'.phase = app.phase]_vars

\* the board shown after a spread response with one match, the third request
\* of the run or a later one
C37_Witness ==
    /\ boardShown(app)
    /\ app.last.kind = "spreadSettled" /\ app.last.outcome = "ok"
    /\ app.spreadData.total_matches = <<1>>
    /\ app.started >= 3
    /\ ~app.spreadLoading

\* ------------------------------------------------------------------------ C38
\* C38: when a Check (Investigate) request settles, with a result, with a
\* response that is not ok or with an error, uploadLoading (spreadLoading) is
\* false; a loading flag that is true becomes false; and no Check
\* (Investigate) request is started while uploadLoading (spreadLoading) is true.
C38_LoadingFlagsClear ==
    /\ [][(app'.last.kind = "uploadSettled" /\ app'.last # app.last) => ~app'.uploadLoading]_vars
    /\ [][(app'.last.kind = "spreadSettled" /\ app'.last # app.last) => ~app'.spreadLoading]_vars
    /\ app.uploadLoading ~> ~app.uploadLoading
    /\ app.spreadLoading ~> ~app.spreadLoading
    /\ [][\A r \in app'.inflight \ app.inflight :
             /\ r.kind = "upload" => ~app.uploadLoading /\ app'.uploadLoading
             /\ r.kind = "spread" => ~app.spreadLoading /\ app'.spreadLoading]_vars

\* a second Check request has settled with an error while an Investigate
\* request is still loading
C38_Witness ==
    /\ app.last.kind = "uploadSettled" /\ app.last.outcome = "thrown"
    /\ app.last.request >= 2
    /\ ~app.uploadLoading
    /\ app.spreadLoading
    /\ \E r \in app.inflight : r.kind = "spread"

====
